---- MODULE Spec2Model ----
(***************************************************************************)
(* AutoXAI: evaluation measures (robustness, infidelity, conciseness),     *)
(* their disk cache, the scalarization of the score history and the outer  *)
(* hyperparameter search, modelled from src/evaluation_measures.py,        *)
(* src/hyperparameters_optimization.py and src/XAI_solutions.py.           *)
(***************************************************************************)
EXTENDS Integers, Sequences, FiniteSets, TLC

(***************************************************************************)
(* Floating point.  numpy computes in binary floating point with round to  *)
(* nearest, ties to even.  A value is a record: k is "fin" for the finite  *)
(* number m * 2^e (m odd, or m = 0 and e = 0), or "nan", "inf", "ninf".    *)
(* The result of an operation keeps MantBits significant bits (float64     *)
(* keeps 53); the exponent is not bounded, so overflow and underflow are   *)
(* not modelled.  Literals and inputs (Q) are taken as they are written.   *)
(***************************************************************************)
MantBits == 8

IAbs(i) == IF i < 0 THEN -i ELSE i

RECURSIVE Pow(_, _)
Pow(b, e) == IF e = 0 THEN 1 ELSE b * Pow(b, e - 1)

\* significands are below Top; a result's significand, before its trailing
\* zeros go to the exponent, is Low or more
Top == Pow(2, MantBits)
Low == Pow(2, MantBits - 1)
Top2 == Pow(4, MantBits)
Low2 == Pow(4, MantBits - 1)

\* the number m * 2^e, m made odd
RECURSIVE Exact(_, _)
Exact(m, e) ==
    IF m = 0 THEN [k |-> "fin", m |-> 0, e |-> 0]
    ELSE IF m % 2 = 0 THEN Exact(m \div 2, e + 1)
    ELSE [k |-> "fin", m |-> m, e |-> e]

\* the dyadic rational n/d (d a power of 2), exact
RECURSIVE Q(_, _)
Q(n, d) == IF d = 1 THEN Exact(n, 0)
           ELSE LET h == Q(n, d \div 2)
                IN  IF h.m = 0 THEN h ELSE Exact(h.m, h.e - 1)

NaN == [k |-> "nan", m |-> 0, e |-> 0]
PInf == [k |-> "inf", m |-> 0, e |-> 0]
NInf == [k |-> "ninf", m |-> 0, e |-> 0]
Zero == Exact(0, 0)
One == Exact(1, 0)

IsFin(a) == a.k = "fin"

\* n/d (n >= 0, d > 0) rounded to an integer, ties to even
RoundHalfEven(n, d) ==
    LET q == n \div d
        r == n % d
    IN  IF 2 * r < d THEN q
        ELSE IF 2 * r > d THEN q + 1
        ELSE IF q % 2 = 0 THEN q ELSE q + 1

\* (n/d) * 2^e, n/d > 0, rounded to MantBits significant bits
RECURSIVE RoundPos(_, _, _)
RoundPos(n, d, e) ==
    IF n \div d >= Top
    THEN (IF n % 2 = 0 THEN RoundPos(n \div 2, d, e + 1) ELSE RoundPos(n, 2 * d, e + 1))
    ELSE IF n \div d < Low
    THEN (IF d % 2 = 0 THEN RoundPos(n, d \div 2, e - 1) ELSE RoundPos(2 * n, d, e - 1))
    ELSE Exact(RoundHalfEven(n, d), e)

Signed(sign, r) == IF sign < 0 THEN [r EXCEPT !.m = -@] ELSE r

\* the float nearest to (n/d) * 2^e (d > 0)
Round(n, d, e) == IF n = 0 THEN Zero ELSE Signed(n, RoundPos(IAbs(n), d, e))

\* the float nearest to the rational n/d (d > 0)
Fl(n, d) == Round(n, d, 0)

FromInt(i) == Fl(i, 1)

FNeg(a) ==
    CASE a.k = "fin" -> [a EXCEPT !.m = -@]
      [] a.k = "inf" -> NInf
      [] a.k = "ninf" -> PInf
      [] OTHER -> NaN

FAbs(a) ==
    CASE a.k = "fin" -> [a EXCEPT !.m = IAbs(@)]
      [] a.k = "nan" -> NaN
      [] OTHER -> PInf

FSign(a) ==
    CASE a.k = "fin" -> (IF a.m > 0 THEN 1 ELSE IF a.m < 0 THEN -1 ELSE 0)
      [] a.k = "inf" -> 1
      [] a.k = "ninf" -> -1
      [] OTHER -> 0

\* the sum of two finite floats, a.e >= b.e: b is below half a unit of a's
\* last place when the exponents are further apart than two significands
AddFin(a, b) ==
    IF b.m = 0 \/ (a.m # 0 /\ a.e - b.e > 2 * MantBits + 1) THEN a
    ELSE IF a.m = 0 THEN b
    ELSE Round(a.m * Pow(2, a.e - b.e) + b.m, 1, b.e)

FAdd(a, b) ==
    IF a.k = "nan" \/ b.k = "nan" THEN NaN
    ELSE IF a.k = "fin" /\ b.k = "fin"
    THEN AddFin(IF a.e >= b.e THEN a ELSE b, IF a.e >= b.e THEN b ELSE a)
    ELSE IF a.k = "fin" THEN b
    ELSE IF b.k = "fin" THEN a
    ELSE IF a.k = b.k THEN a ELSE NaN

FSub(a, b) == FAdd(a, FNeg(b))

FMul(a, b) ==
    IF a.k = "nan" \/ b.k = "nan" THEN NaN
    ELSE IF a.k = "fin" /\ b.k = "fin" THEN Round(a.m * b.m, 1, a.e + b.e)
    ELSE IF FSign(a) * FSign(b) = 0 THEN NaN
    ELSE IF FSign(a) * FSign(b) > 0 THEN PInf ELSE NInf

\* IEEE division: x/0 is inf or -inf and 0/0 is nan (numpy warns, and returns it)
FDiv(a, b) ==
    IF a.k = "nan" \/ b.k = "nan" THEN NaN
    ELSE IF a.k = "fin" /\ b.k = "fin"
    THEN IF b.m = 0
         THEN (IF a.m = 0 THEN NaN ELSE IF a.m > 0 THEN PInf ELSE NInf)
         ELSE Round((IF b.m < 0 THEN -a.m ELSE a.m), IAbs(b.m), a.e - b.e)
    ELSE IF a.k = "fin" THEN Zero
    ELSE IF b.k # "fin" THEN NaN
    ELSE IF FSign(a) * (IF b.m < 0 THEN -1 ELSE 1) > 0 THEN PInf ELSE NInf

\* significands are below 2^Wide, inputs included
Wide == 2 * MantBits + 4

\* a <= b of two finite floats
LeqFin(a, b) ==
    IF a.e >= b.e
    THEN (IF a.m = 0 THEN 0 <= b.m
          ELSE IF a.e - b.e > Wide THEN a.m < 0
          ELSE a.m * Pow(2, a.e - b.e) <= b.m)
    ELSE (IF b.m = 0 THEN a.m <= 0
          ELSE IF b.e - a.e > Wide THEN b.m > 0
          ELSE a.m <= b.m * Pow(2, b.e - a.e))

\* a <= b; every comparison with nan is false
FLeq(a, b) ==
    IF a.k = "nan" \/ b.k = "nan" THEN FALSE
    ELSE IF a.k = "fin" /\ b.k = "fin" THEN LeqFin(a, b)
    ELSE a.k = "ninf" \/ b.k = "inf" \/ a.k = b.k

\* the integer j of lo..hi with j * j <= n < (j + 1) * (j + 1)
RECURSIVE ISqrt(_, _, _)
ISqrt(n, lo, hi) ==
    IF lo = hi THEN lo
    ELSE LET mid == (lo + hi + 1) \div 2
         IN  IF mid * mid <= n THEN ISqrt(n, mid, hi) ELSE ISqrt(n, lo, mid - 1)

\* i or i + 1, the nearer to sqrt(n); (i + 1/2)^2 is no integer: no tie
SqrtRound(n, i, h) ==
    Exact((IF 4 * n > (2 * i + 1) * (2 * i + 1) THEN i + 1 ELSE i), h)

\* sqrt(n) * 2^h, n > 0, rounded to MantBits significant bits
RECURSIVE SqrtPos(_, _)
SqrtPos(n, h) ==
    IF n >= Top2
    THEN SqrtPos(n \div 4, h + 1)   \* reached with n a multiple of 4 only
    ELSE IF n < Low2 THEN SqrtPos(4 * n, h - 1)
    ELSE SqrtRound(n, ISqrt(n, Low, Top - 1), h)

FSqrt(a) ==
    CASE a.k = "nan" -> NaN
      [] a.k = "inf" -> PInf
      [] a.k = "ninf" -> NaN
      [] OTHER -> IF a.m < 0 THEN NaN
                  ELSE IF a.m = 0 THEN Zero
                  ELSE SqrtPos((IF a.e % 2 = 0 THEN a.m ELSE 2 * a.m),
                               (a.e - (a.e % 2)) \div 2)

(***************************************************************************)
(* Vectors of floats (numpy arrays of one dimension).                      *)
(***************************************************************************)
VSub(u, v) == [j \in 1..Len(u) |-> FSub(u[j], v[j])]
VAdd(u, v) == [j \in 1..Len(u) |-> FAdd(u[j], v[j])]

\* the first n components, v[:n]
Take(v, n) == IF n >= Len(v) THEN v ELSE SubSeq(v, 1, n)

\* s[from..to] added to acc one after the other
RECURSIVE AddUp(_, _, _, _)
AddUp(acc, s, from, to) ==
    IF from > to THEN acc ELSE AddUp(FAdd(acc, s[from]), s, from + 1, to)

\* s[j], s[j+8], s[j+16], ... up to the index last, added to acc in turn
RECURSIVE LaneUp(_, _, _, _)
LaneUp(acc, s, j, last) ==
    IF j > last THEN acc ELSE LaneUp(FAdd(acc, s[j]), s, j + 8, last)

Lane(s, j, last) == LaneUp(s[j], s, j + 8, last)

\* numpy's add.reduce of up to 128 floats: fewer than 8 are added from the
\* left; else 8 running sums take every eighth element of the leading
\* multiple of 8, are added in pairs, and the rest is added to the result
Sum8(s, whole) ==
    AddUp(FAdd(FAdd(FAdd(Lane(s, 1, whole), Lane(s, 2, whole)),
                    FAdd(Lane(s, 3, whole), Lane(s, 4, whole))),
               FAdd(FAdd(Lane(s, 5, whole), Lane(s, 6, whole)),
                    FAdd(Lane(s, 7, whole), Lane(s, 8, whole)))),
          s, whole + 1, Len(s))

FSum(s) == IF Len(s) < 8 THEN AddUp(Zero, s, 1, Len(s))
           ELSE Sum8(s, Len(s) - (Len(s) % 8))

\* np.mean: the sum divided by the count; the mean of no value is 0/0 = nan
Mean(s) == FDiv(FSum(s), FromInt(Len(s)))

\* np.matmul of two vectors
Dot(u, v) == FSum([j \in 1..Len(u) |-> FMul(u[j], v[j])])

\* np.linalg.norm: the Euclidean norm
Norm(v) == FSqrt(Dot(v, v))

AllEqual(s) == \A a, b \in 1..Len(s) : s[a] = s[b]

(***************************************************************************)
(* lipschitz_ratio(x, y, function, reshape, minus): function is given here *)
(* by its two values fx = function(x) and fy = function(y).  The quotient  *)
(* of the two norms is returned as it is: no test of norm(x - y) = 0.      *)
(***************************************************************************)
lipschitz_ratio(x, y, fx, fy, minus) ==
    LET multip == IF minus THEN FromInt(-1) ELSE One
    IN  FDiv(FMul(multip, Norm(VSub(fx, fy))), Norm(VSub(x, y)))

(***************************************************************************)
(* Python's int() of a float truncates toward zero; np.round rounds to the *)
(* nearest integer, a tie to the even one.  Both are exact on the value.   *)
(***************************************************************************)
PyInt(a) ==
    IF a.e >= 0 THEN a.m * Pow(2, a.e)
    ELSE IF a.m >= 0 THEN a.m \div Pow(2, -a.e) ELSE -((-a.m) \div Pow(2, -a.e))

NpRound(a) ==
    IF a.e >= 0 THEN a.m * Pow(2, a.e)
    ELSE IF a.m >= 0 THEN RoundHalfEven(a.m, Pow(2, -a.e))
    ELSE -RoundHalfEven(-a.m, Pow(2, -a.e))

(***************************************************************************)
(* Hyperparameters.  A configuration (the dict `parameters`) is a record;  *)
(* a key the dict does not hold is 0, "" or NoL1.  l1_reg is a name with   *)
(* the integer of 'num_features(k)' or the float drawn for "float".        *)
(***************************************************************************)
L1(name) == [name |-> name, arg |-> 0, val |-> Zero]
NoL1 == L1("")
L1NumFeatures(k) == [name |-> "num_features", arg |-> k, val |-> Zero]
L1Float(v) == [name |-> "float", arg |-> 0, val |-> v]

NoParameters ==
    [num_samples |-> 0, summarize |-> "", nsamples |-> 0, l1_reg |-> NoL1,
     nfeatures |-> 0]

\* utils.hp_possible_values: the declared domains of the hyperparameters
hp_LIME_num_samples == <<10, 10000>>
hp_SHAP_summarize == <<"KernelExplainer", "Sampling">>
hp_SHAP_nsamples == <<10, 2048>>
hp_SHAP_l1_reg == <<L1("auto"), L1("aic"), L1("bic"), L1("num_features(int)"),
                    L1("float")>>

\* numpy.random.randint(low, high): an integer of [low, high), an error when
\* the interval is empty.  The draws kept are the two ends of the interval.
randint(low, high) == {v \in {low, high - 1} : low <= v /\ v < high}

\* numpy.random.rand(): a float of [0, 1); the draws kept
rand == {Q(1, 4), Q(3, 4)}

Range(s) == {s[j] : j \in DOMAIN s}

\* get_parameters, hpo = "random": the nfeatures it draws or sets
random_nfeatures(properties_list, d) ==
    IF "conciseness" \in Range(properties_list) THEN randint(1, d) ELSE {d}

\* a default beyond the dimensionality
default_nfeatures_more(d) == d + 1

\* get_parameters, hpo = "default"
default_nfeatures(d) == d

\* the values of l1_reg that hpo = "random" can end with, for one choice c
random_l1_reg(c, d) ==
    IF c.name = "float" THEN {L1Float(v) : v \in rand}
    ELSE IF c.name = "num_features(int)" THEN {L1NumFeatures(k) : k \in randint(1, d)}
    ELSE {c}

(***************************************************************************)
(* get_parameters(xai_sol, score_hist, hpo, properties_list, context): the *)
(* set of its outcomes, d = len(context["feature_names"]) =                *)
(* context["X"].shape[1].  An outcome is a configuration, or the           *)
(* ValueError of a randint over an empty interval.  Any other hpo leaves   *)
(* the dict empty.                                                         *)
(***************************************************************************)
Outcome(ps) == [err |-> "", parameters |-> ps]
Raised(e) == [err |-> e, parameters |-> NoParameters]

get_parameters(xai_sol, hpo, properties_list, d) ==
    IF hpo = "random"
    THEN LET base ==
               IF xai_sol = "LIME"
               THEN {[NoParameters EXCEPT !.num_samples = v] :
                       v \in randint(hp_LIME_num_samples[1], hp_LIME_num_samples[2])}
               ELSE IF xai_sol = "SHAP"
               THEN {[NoParameters EXCEPT !.summarize = sm, !.nsamples = v, !.l1_reg = l] :
                       sm \in Range(hp_SHAP_summarize),
                       v \in randint(hp_SHAP_nsamples[1], hp_SHAP_nsamples[2]),
                       l \in UNION {random_l1_reg(c, d) : c \in Range(hp_SHAP_l1_reg)}}
               ELSE {NoParameters}
             failsL1 == xai_sol = "SHAP" /\ randint(1, d) = {}
             nfs == random_nfeatures(properties_list, d)
         IN  {Outcome([b EXCEPT !.nfeatures = nf]) : b \in base, nf \in nfs}
             \cup (IF failsL1 \/ nfs = {} THEN {Raised("ValueError")} ELSE {})
    ELSE IF hpo = "default"
    THEN LET b == IF xai_sol = "LIME"
                  THEN [NoParameters EXCEPT !.num_samples = 5000]
                  ELSE IF xai_sol = "SHAP"
                  THEN [NoParameters EXCEPT !.summarize = "KernelExplainer",
                                            !.nsamples = 2048, !.l1_reg = L1("auto")]
                  ELSE NoParameters
         IN  {Outcome([b EXCEPT !.nfeatures = default_nfeatures(d)])}
    ELSE {Outcome(NoParameters)}

(***************************************************************************)
(* gp_optimization: the bounding box pbounds of each kind, the number of   *)
(* random initial points, and f's decoding of a vector of the box.  A      *)
(* vector is a record of floats with the keys of pbounds.                  *)
(***************************************************************************)
pbounds(xai_sol, d) ==
    IF xai_sol = "LIME"
    THEN [num_samples |-> <<10, 10000>>, nfeatures |-> <<1, d>>]
    ELSE IF xai_sol = "SHAP"
    THEN [summarize |-> <<0, 1>>, nsamples |-> <<10, 2048>>, l1_reg |-> <<0, 3>>,
          num_features |-> <<1, d>>, nfeatures |-> <<1, d>>]
    ELSE <<>>

\* len(pbounds)
NumDims(xai_sol, d) == Cardinality(DOMAIN pbounds(xai_sol, d))

\* 5 to the number of dimensions for every kind
init_points_dims(xai_sol, d) == Pow(5, NumDims(xai_sol, d))

init_points(xai_sol, d) ==
    IF xai_sol = "LIME" THEN Pow(5, NumDims(xai_sol, d)) ELSE Pow(5, 2)

decode_num_samples(v) == PyInt(v)
decode_nsamples(v) == PyInt(v)
decode_nfeatures_trunc(v) == PyInt(v)
decode_nfeatures(v) == NpRound(v)
decode_num_features(v) == NpRound(v)
decode_index(v) == NpRound(v)

decode(xai_sol, v) ==
    IF xai_sol = "LIME"
    THEN [NoParameters EXCEPT !.num_samples = decode_num_samples(v.num_samples),
                              !.nfeatures = decode_nfeatures(v.nfeatures)]
    ELSE LET l == hp_SHAP_l1_reg[decode_index(v.l1_reg) + 1]
         IN  [NoParameters EXCEPT
                !.nsamples = decode_nsamples(v.nsamples),
                !.summarize = hp_SHAP_summarize[decode_index(v.summarize) + 1],
                !.l1_reg = IF l.name = "num_features(int)"
                           THEN L1NumFeatures(decode_num_features(v.num_features))
                           ELSE l,
                !.nfeatures = decode_nfeatures(v.nfeatures)]

(***************************************************************************)
(* The collaborators.  The explainer backends and the predictive model are *)
(* outside the repository; they are given by small families.               *)
(*                                                                         *)
(* backend "gradient" attributes the constant vector of ones (the gradient *)
(* of the linear model); backend "saliency" attributes sharp * x[j]^2,     *)
(* sharp growing with the number of samples the configuration asks for.    *)
(* LIME and SHAP sample at random: two explanations of one point can       *)
(* differ; `noise` is what a call adds to the first attribution.           *)
(***************************************************************************)
Kinds == {"LIME", "SHAP"}
Properties == {"robustness", "fidelity", "conciseness"}

\* set_up_explainer: the handle kept in context['explainer']
set_up_explainer(xai_sol, parameters) ==
    IF xai_sol = "LIME" THEN "LimeTabularExplainer"
    ELSE IF parameters.summarize = "Sampling" THEN "Sampling"
    ELSE "KernelExplainer"

sharpness(xai_sol, parameters, handle) ==
    IF xai_sol = "LIME" THEN Fl(parameters.num_samples, 5000)
    ELSE IF handle = "Sampling" THEN Fl(parameters.nsamples, 1024)
    ELSE Fl(parameters.nsamples, 2048)

attribution(backend, sharp, x, noise) ==
    [j \in 1..Len(x) |->
        FAdd(IF backend = "gradient" THEN One ELSE FMul(sharp, FMul(x[j], x[j])),
             IF j = 1 THEN noise ELSE Zero)]

\* get_local_exp: the attribution cut to its first nfeatures components
get_local_exp(xai_sol, x, parameters, backend, handle, noise) ==
    Take(attribution(backend, sharpness(xai_sol, parameters, handle), x, noise),
         parameters.nfeatures)

\* model.predict of one row: the linear model x[1] + ... + x[d]
predict(x) == FSum(x)

(***************************************************************************)
(* Datasets: rows of d floats.                                             *)
(***************************************************************************)
MaxDim == 2
SmallN == 2
Extra == 1

\* the loop bounds of the early stop: `i>5` and `stable_i > 5`
MinIndex == 5
MaxStable == 5

\* the number of rows a compute loop has seen when it can first break
StopLen == MinIndex + MaxStable + 2

Row(k, d) == [j \in 1..d |-> Q(k + j - 1, 4)]
SmallX(d) == [i \in 1..SmallN |-> Row(i, d)]
OneRow(d) == <<Row(1, d)>>
\* equal rows, Extra more than the early stop needs
SameX(d) == [i \in 1..(StopLen + Extra) |-> Row(1, d)]
\* as many rows, the ninth far from the others
OutlierX(d) == [i \in 1..(StopLen + Extra) |-> IF i = 9 THEN Row(40, d) ELSE Row(1, d)]
\* one row less than the early stop needs
ShortX(d) == [i \in 1..(StopLen - 1) |-> Row(1, d)]

eps == Fl(1, 10)

\* displacements the inner optimizer can end on: inside the box, not zero
OffA(d) == [j \in 1..d |-> IF j = 1 THEN Q(1, 16) ELSE Zero]
OffB(d) == [j \in 1..d |-> IF j = 1 THEN Q(3, 64) ELSE IF j = 2 THEN Q(1, 16) ELSE Zero]

nb_pert == 10

\* the draws of np.random.rand(len(x)) of one row: nb_pert vectors of [0, 1)
PertLow(d) == [j \in 1..nb_pert |-> [c \in 1..d |-> Zero]]
PertMix(d) == [j \in 1..nb_pert |->
                 [c \in 1..d |-> IF j % 2 = 0 THEN Q(3, 4) ELSE Q(1, 4)]]

(***************************************************************************)
(* State.                                                                  *)
(*   ctx        the context dict and the collaborators' behaviour, fixed   *)
(*   explainer  context['explainer']                                       *)
(*   files      the results directory: path -> stored artifact             *)
(*   pc         where the program is                                       *)
(*   call       the arguments of the current (or last) evaluate            *)
(*   loc        the locals of the current (or last) measure                *)
(*   out        what the last evaluate or pure function gave back          *)
(*   log        the measure runs that returned, in order                   *)
(*   score_hist the score history dict                                     *)
(*   srch       gp_optimization: the trials left and the current vector    *)
(*   calls      the number of evaluate calls of the caller so far          *)
(***************************************************************************)
VARIABLES ctx, explainer, files, pc, call, loc, out, log, score_hist, srch, calls

vars == <<ctx, explainer, files, pc, call, loc, out, log, score_hist, srch, calls>>

session_id == "0"
Prefixes == {"x_opts_", "perturb_infs_"}
\* 'results/' + prefix + xai_sol + session_id + '.p'
PathOf(prefix, xai_sol) == <<"results/", prefix, xai_sol, session_id, ".p">>
Paths == {PathOf(pre, k) : pre \in Prefixes, k \in Kinds}

NoFile == [present |-> FALSE, data |-> <<>>]
Stored(data) == [present |-> TRUE, data |-> data]

\* os.path.exists(path)
exists(path) == files[path].present

NoLoc == [measure |-> "", path |-> "", found |-> FALSE, list |-> <<>>,
          arts |-> <<>>, stable_i |-> 0, inner |-> 0]

NoOut == [status |-> "none", score |-> Zero, err |-> ""]
Score(v) == [status |-> "score", score |-> v, err |-> ""]
Error(e) == [status |-> "raised", score |-> Zero, err |-> e]

NoCall == [xai_sol |-> "", parameters |-> NoParameters, property |-> ""]

\* n_calls of gp_minimize
n_calls(xai_sol) == IF xai_sol \in {"LIME", "SHAP"} THEN 10 ELSE 100

\* Python's list[:-1]
Front(s) == IF Len(s) = 0 THEN s ELSE SubSeq(s, 1, Len(s) - 1)

(***************************************************************************)
(* The early stop test after the append of index i (from 0):               *)
(*   es and abs(mean(list[:-1]) - mean(list)) <= mean(list)/10 and i>5     *)
(***************************************************************************)
es == TRUE
IS == TRUE

stable_means(before, now, i) ==
    /\ es
    /\ FLeq(FAbs(FSub(before, now)), FDiv(now, FromInt(10)))
    /\ i > MinIndex

stable(list, i) == stable_means(Mean(Front(list)), Mean(list), i)

\* a loop that breaks one turn later
breaks_late(stable_i) == stable_i > MaxStable + 1

\* stable_i > 5: the loop breaks
breaks(stable_i) == stable_i > MaxStable

\* a cache that is never read
replays_never(path) == FALSE

\* the first test of the cache: `IS and os.path.exists(path)`
replays(path) == IS /\ exists(path)

\* a run that never writes its artifact
dumps_never(path) == FALSE

\* the test before the dump: `IS and not os.path.exists(path)`
dumps(path) == IS /\ ~exists(path)

exp(x, noise) ==
    get_local_exp(call.xai_sol, x, call.parameters, ctx.backend, explainer, noise)

(***************************************************************************)
(* What a returned score does next.  A direct caller has it and is idle    *)
(* again; inside a trial of gp_optimization, f appends it to the history   *)
(* of the property and goes on with the next property.                     *)
(***************************************************************************)
\* an f that forgets the append
Append1_none(h, property, v) == h

Append1(h, property, v) == [h EXCEPT ![property] = Append(@, v)]

Returns(property, v) ==
    /\ out' = Score(v)
    /\ IF srch.active
       THEN /\ score_hist' = [score_hist EXCEPT !.hist = Append1(@, property, v)]
            /\ srch' = [srch EXCEPT !.pidx = @ + 1]
            /\ pc' = "trial"
       ELSE /\ pc' = "idle"
            /\ UNCHANGED <<score_hist, srch>>

\* an exception leaves every frame: nothing catches it
Raises(e) ==
    /\ out' = Error(e)
    /\ pc' = "raised"
    /\ UNCHANGED <<score_hist, srch>>

(***************************************************************************)
(* compute_lipschitz_robustness                                            *)
(***************************************************************************)
RobPath == PathOf("x_opts_", call.xai_sol)

\* line 100-102, 107-109: the branch taken and the locals at its start
RobEnter(xai_sol) ==
    LET path == PathOf("x_opts_", xai_sol)
    IN  IF replays(path)
        THEN [NoLoc EXCEPT !.measure = "robustness", !.path = "replay",
                           !.found = TRUE, !.arts = files[path].data]
        ELSE [NoLoc EXCEPT !.measure = "robustness", !.path = "compute"]

\* the replay taking the sign of the optimizer's loss
ratio_signed(x, y, nx, ny, minus) ==
    lipschitz_ratio(x, y, exp(x, nx), exp(y, ny), TRUE)

\* lipschitz_ratio of x and y, each explained anew
ratio(x, y, nx, ny, minus) == lipschitz_ratio(x, y, exp(x, nx), exp(y, ny), minus)

\* one turn of `for i in range(len(x_opts))`
RobReplayStep ==
    /\ pc = "rob_replay"
    /\ Len(loc.list) < Len(loc.arts)
    /\ LET i == Len(loc.list) + 1
       IN  IF i > Len(ctx.X)
           THEN /\ Raises("IndexError")
                /\ UNCHANGED <<loc, log>>
           ELSE \E nx, ny \in ctx.noise :
                  /\ loc' = [loc EXCEPT !.list =
                               Append(@, ratio(ctx.X[i], loc.arts[i], nx, ny, FALSE))]
                  /\ UNCHANGED <<pc, out, score_hist, srch, log>>
    /\ UNCHANGED <<ctx, explainer, files, call, calls>>

\* the end of one turn of a compute loop: the appends, then the early stop
\* test on the new list (lines 127-134 and 212-219)
Turn(list, art, st, looping, ending) ==
    /\ loc' = [loc EXCEPT !.list = list, !.arts = Append(@, art),
                          !.stable_i = IF st THEN @ + 1 ELSE 0, !.inner = @ + 1]
    /\ pc' = IF st /\ breaks(loc.stable_i + 1) THEN ending ELSE looping

Appends(list, art, looping, ending) ==
    Turn(list, art, stable(list, Len(list) - 1), looping, ending)

\* one turn of `for i in range(len(X))`: the inner optimizer ends on a point
\* x_opt of the box around x with the loss fun it saw there; lip = -fun
RobTurn(x_opt, fun) ==
    Appends(Append(loc.list, FNeg(fun)), x_opt, "rob_compute", "rob_end")

RobAt(x, x_opt, nx, ny) == RobTurn(x_opt, ratio(x, x_opt, nx, ny, TRUE))

RobComputeStep ==
    /\ pc = "rob_compute"
    /\ Len(loc.list) < Len(ctx.X)
    /\ \E off \in ctx.offsets, nx, ny \in ctx.noise :
         RobAt(ctx.X[Len(loc.list) + 1], VAdd(ctx.X[Len(loc.list) + 1], off), nx, ny)
    /\ UNCHANGED <<ctx, explainer, files, call, calls, out, score_hist, srch, log>>

Run(score) ==
    [measure |-> loc.measure, xai_sol |-> call.xai_sol, parameters |-> call.parameters,
     handle |-> explainer, path |-> loc.path, n |-> Len(loc.list), score |-> score]

Ends(score) ==
    /\ Returns(call.property, score)
    /\ log' = Append(log, Run(score))

\* the loop is over: the dump when no file is there, the mean, the return
RobEnd ==
    /\ \/ pc = "rob_end"
       \/ pc = "rob_compute" /\ Len(loc.list) = Len(ctx.X)
       \/ pc = "rob_replay" /\ Len(loc.list) = Len(loc.arts)
    /\ files' = IF dumps(RobPath) THEN [files EXCEPT ![RobPath] = Stored(loc.arts)]
                ELSE files
    /\ Ends(Mean(loc.list))
    /\ UNCHANGED <<ctx, explainer, call, loc, calls>>

(***************************************************************************)
(* compute_infidelity                                                      *)
(***************************************************************************)
InfPath == PathOf("perturb_infs_", call.xai_sol)

InfEnter(xai_sol) ==
    LET path == PathOf("perturb_infs_", xai_sol)
    IN  IF replays(path)
        THEN [NoLoc EXCEPT !.measure = "fidelity", !.path = "replay",
                           !.found = TRUE, !.arts = files[path].data]
        ELSE [NoLoc EXCEPT !.measure = "fidelity", !.path = "compute"]

\* (exp_x-exp_x0-(pred_x-pred_x0))**2
residual(exp_x, exp_x0, pred_x, pred_x0) ==
    LET r == FSub(FSub(exp_x, exp_x0), FSub(pred_x, pred_x0))
    IN  FMul(r, r)

\* x + np.random.rand(len(x))*2*eps-eps
perturbed(x, r) ==
    [c \in 1..Len(x) |-> FSub(FAdd(x[c], FMul(FMul(r[c], FromInt(2)), eps)), eps)]

\* np.matmul(x[:nfeatures], e) for the explanation e cut to nfeatures
explained(x, e, nf) == Dot(Take(x, nf), Take(e, nf))

\* the mean over the perturbations of one row x with explanation e
row_infidelity(x, e, nf, pert) ==
    Mean([j \in 1..nb_pert |->
            residual(explained(x, e, nf), explained(pert.x0[j], e, nf),
                     pert.pred_x[j], pert.pred_x0[j])])

\* what the compute path keeps of one row: x0, pred_x, pred_x0 of each draw
predicted(x, x0) ==
    [x0 |-> x0, pred_x |-> [j \in 1..nb_pert |-> predict(x)],
     pred_x0 |-> [j \in 1..nb_pert |-> predict(x0[j])]]

perturbations(x, draw) == predicted(x, [j \in 1..nb_pert |-> perturbed(x, draw[j])])

\* one row of the replay: the stored perturbations and predictions, a new
\* explanation of x
InfReplayStep ==
    /\ pc = "inf_replay"
    /\ Len(loc.list) < Len(loc.arts)
    /\ LET i == Len(loc.list) + 1
       IN  IF i > Len(ctx.X)
           THEN /\ Raises("IndexError")
                /\ UNCHANGED <<loc, log>>
           ELSE \E nx \in ctx.noise :
                  /\ loc' = [loc EXCEPT !.list =
                               Append(@, row_infidelity(ctx.X[i], exp(ctx.X[i], nx),
                                                        call.parameters.nfeatures,
                                                        loc.arts[i]))]
                  /\ UNCHANGED <<pc, out, score_hist, srch, log>>
    /\ UNCHANGED <<ctx, explainer, files, call, calls>>

InfTurn(x, e, pert) ==
    Appends(Append(loc.list, row_infidelity(x, e, call.parameters.nfeatures, pert)),
            pert, "inf_compute", "inf_end")

\* one row of the compute path: nb_pert perturbations drawn and predicted
InfComputeStep ==
    /\ pc = "inf_compute"
    /\ Len(loc.list) < Len(ctx.X)
    /\ \E draw \in ctx.perts, nx \in ctx.noise :
         InfTurn(ctx.X[Len(loc.list) + 1], exp(ctx.X[Len(loc.list) + 1], nx),
                 perturbations(ctx.X[Len(loc.list) + 1], draw))
    /\ UNCHANGED <<ctx, explainer, files, call, calls, out, score_hist, srch, log>>

InfEnd ==
    /\ \/ pc = "inf_end"
       \/ pc = "inf_compute" /\ Len(loc.list) = Len(ctx.X)
       \/ pc = "inf_replay" /\ Len(loc.list) = Len(loc.arts)
    /\ files' = IF dumps(InfPath) THEN [files EXCEPT ![InfPath] = Stored(loc.arts)]
                ELSE files
    /\ Ends(Mean(loc.list))
    /\ UNCHANGED <<ctx, explainer, call, loc, calls>>

(***************************************************************************)
(* evaluate(xai_sol, parameters, property, context): the explainer is set  *)
(* up for LIME and SHAP, then the measure of the property runs when the    *)
(* question is "Why".  `score` is bound only there: with another question  *)
(* (or an unknown property) `return score` reads an unbound local.         *)
(***************************************************************************)
scored(property, question) == property \in Properties /\ question = "Why"

evaluate(xai_sol, parameters, property) ==
    /\ explainer' = IF xai_sol \in {"LIME", "SHAP"}
                    THEN set_up_explainer(xai_sol, parameters) ELSE explainer
    /\ call' = [xai_sol |-> xai_sol, parameters |-> parameters, property |-> property]
    /\ IF ~scored(property, ctx.question)
       THEN /\ Raises("UnboundLocalError")
            /\ UNCHANGED loc
       ELSE IF property = "robustness"
       THEN /\ loc' = RobEnter(xai_sol)
            /\ pc' = IF replays(PathOf("x_opts_", xai_sol)) THEN "rob_replay"
                     ELSE "rob_compute"
            /\ out' = NoOut
            /\ UNCHANGED <<score_hist, srch>>
       ELSE IF property = "fidelity"
       THEN /\ loc' = InfEnter(xai_sol)
            /\ pc' = IF replays(PathOf("perturb_infs_", xai_sol)) THEN "inf_replay"
                     ELSE "inf_compute"
            /\ out' = NoOut
            /\ UNCHANGED <<score_hist, srch>>
       ELSE /\ Returns(property, Q(parameters.nfeatures, 1))
            /\ UNCHANGED loc
    /\ UNCHANGED <<ctx, files, log>>

(***************************************************************************)
(* linear_scalarization(score_hist, properties_list, context).  The score  *)
(* history is [hist: property -> scores, aggregated_score, scaled:         *)
(* property -> scaled_<property>]; scaled_<property> is "unset" (no such   *)
(* key), "zero" (the int 0) or "list".                                     *)
(***************************************************************************)
Unset == [kind |-> "unset", vals |-> <<>>]
IntZero == [kind |-> "zero", vals |-> <<>>]
Scaled(vals) == [kind |-> "list", vals |-> vals]

FMin(a, b) == IF FLeq(a, b) THEN a ELSE b
FMax(a, b) == IF FLeq(a, b) THEN b ELSE a

RECURSIVE SeqMin(_)
SeqMin(s) == IF Len(s) = 1 THEN s[1] ELSE FMin(SeqMin(Front(s)), s[Len(s)])
RECURSIVE SeqMax(_)
SeqMax(s) == IF Len(s) = 1 THEN s[1] ELSE FMax(SeqMax(Front(s)), s[Len(s)])

\* sklearn: a zero scale is replaced by 1
handle_zeros(a) == IF a = Zero THEN One ELSE a

\* MinMaxScaler().fit_transform on one column: X * scale_ + min_, with
\* scale_ = 1 / (max - min) and min_ = 0 - min * scale_
affine(s, data_min, scale_) ==
    [k \in 1..Len(s) |-> FAdd(FMul(s[k], scale_), FSub(Zero, FMul(data_min, scale_)))]

MinMaxOf(s, data_min, data_max) ==
    affine(s, data_min, FDiv(One, handle_zeros(FSub(data_max, data_min))))

MinMaxScaler(s) == MinMaxOf(s, SeqMin(s), SeqMax(s))

\* StandardScaler().fit_transform on one column: (X - mean_) / scale_, with
\* scale_ = sqrt(var_), the variance over the count
square(a) == FMul(a, a)

centred(s, mean_, scale_) == [k \in 1..Len(s) |-> FDiv(FSub(s[k], mean_), scale_)]

StandardOf(s, mean_) ==
    centred(s, mean_,
            handle_zeros(FSqrt(Mean([k \in 1..Len(s) |-> square(FSub(s[k], mean_))]))))

StandardScaler(s) == StandardOf(s, Mean(s))

\* a loop that scales a single score too
scales_one(scores) == Len(scores) >= 1

\* `len(score_hist[property])>1`: the property is scaled and added
scales(scores) == Len(scores) > 1

\* scaled * weights[i]/len(properties_list), of one entry
weighted(v, w, nprops) == FDiv(FMul(v, w), FromInt(nprops))

fit_transform(scaling, scores) ==
    IF scaling = "MinMax" THEN MinMaxScaler(scores) ELSE StandardScaler(scores)

\* line 301: the reshape of the scaled history to the shape of the aggregate
\* raises when the lengths differ, else the weighted scaled scores are added
added(sh, property, sc, w, nprops) ==
    IF Len(sc) # Len(sh.aggregated_score)
    THEN [sh EXCEPT !.scaled[property] = Scaled(sc), !.err = "ValueError"]
    ELSE [sh EXCEPT !.scaled[property] = Scaled(sc),
                    !.aggregated_score =
                       [k \in 1..Len(@) |-> FAdd(@[k], weighted(sc[k], w, nprops))]]

\* one turn of the loop over properties_list
scalarize_one(sh, property, scaling, w, nprops) ==
    IF scales(sh.hist[property])
    THEN added(sh, property, fit_transform(scaling, sh.hist[property]), w, nprops)
    ELSE [sh EXCEPT !.scaled[property] = IntZero]

\* the loop from the i-th entry of properties_list on, left by the error
RECURSIVE scalarize_from(_, _, _, _, _)
scalarize_from(sh, properties_list, scaling, weights, i) ==
    IF i > Len(properties_list) \/ sh.err # "" THEN sh
    ELSE scalarize_from(scalarize_one(sh, properties_list[i], scaling, weights[i],
                                      Len(properties_list)),
                        properties_list, scaling, weights, i + 1)

linear_scalarization(sh, properties_list, scaling, weights) ==
    scalarize_from(
        [sh EXCEPT !.aggregated_score = [k \in 1..(Len(@) + 1) |-> Zero]],
        properties_list, scaling, weights, 1)

NoHist == [hist |-> [p \in Properties |-> <<>>], aggregated_score |-> <<>>,
           scaled |-> [p \in Properties |-> Unset], err |-> ""]

(***************************************************************************)
(* The callers.                                                            *)
(*                                                                         *)
(* A direct caller draws a configuration with get_parameters and calls     *)
(* evaluate, MaxCalls times at most.                                       *)
(***************************************************************************)
MaxCalls == 2

DirectCall ==
    /\ pc = "idle"
    /\ ctx.driver = "direct"
    /\ calls < MaxCalls
    /\ calls' = calls + 1
    /\ \E xai_sol \in ctx.kinds, hpo \in ctx.hpos, property \in ctx.props :
         \E o \in get_parameters(xai_sol, hpo, ctx.properties_list, ctx.d) :
            IF o.err # ""
            THEN /\ Raises(o.err)
                 /\ UNCHANGED <<ctx, explainer, files, call, loc, log>>
            ELSE evaluate(xai_sol, o.parameters, property)

(***************************************************************************)
(* gp_optimization(xai_sol, score_hist, properties_list, context, epochs): *)
(* BayesianOptimization.maximize probes init_points random vectors of the  *)
(* box, then n_iter = epochs vectors its surrogate proposes.  Each probe   *)
(* calls f on the vector.  The vectors kept are those of Box.              *)
(***************************************************************************)
Quarters(lo, hi) == {Q(k, 4) : k \in (4 * lo)..(4 * hi)}
Halves(lo, hi) == {Q(k, 2) : k \in (2 * lo)..(2 * hi)}

\* the coordinates kept between the bounds lo and hi of one key of pbounds
CoordsOf(name, lo, hi, grid) ==
    IF grid = "coarse"
    THEN IF name \in {"num_samples", "nsamples"} THEN {Q(4 * lo + 3, 4)}
         ELSE IF name = "nfeatures"
         THEN {Q(lo, 1), Q(hi, 1)}
         ELSE {Q(lo, 1)}
    ELSE IF name \in {"num_samples", "nsamples"}
         THEN {Q(lo, 1), Q(4 * lo + 3, 4), Q(2 * hi - 1, 2), Q(hi, 1)}
         ELSE IF name = "l1_reg" THEN Halves(lo, hi) \cup {Q(11, 4)}
         ELSE Quarters(lo, hi)

Coords(xai_sol, d, name, grid) ==
    CoordsOf(name, pbounds(xai_sol, d)[name][1], pbounds(xai_sol, d)[name][2], grid)

Box(xai_sol, d, grid) ==
    IF xai_sol = "LIME"
    THEN {[num_samples |-> a, nfeatures |-> b] :
            a \in Coords(xai_sol, d, "num_samples", grid),
            b \in Coords(xai_sol, d, "nfeatures", grid)}
    ELSE {[summarize |-> a, nsamples |-> b, l1_reg |-> c, num_features |-> e,
           nfeatures |-> g] :
            a \in Coords(xai_sol, d, "summarize", grid),
            b \in Coords(xai_sol, d, "nsamples", grid),
            c \in Coords(xai_sol, d, "l1_reg", grid),
            e \in Coords(xai_sol, d, "num_features", grid),
            g \in Coords(xai_sol, d, "nfeatures", grid)}

NoVec == [nfeatures |-> Zero]

NoSearch == [active |-> FALSE, xai_sol |-> "", init_left |-> 0, iter_left |-> 0,
             random |-> 0, guided |-> 0, pidx |-> 0, vec |-> NoVec, finished |-> FALSE]

\* lines 82-99, 119-129: the box, init_points, the optimizer and maximize
GpOptimization ==
    /\ pc = "idle"
    /\ ctx.driver = "search"
    /\ ~srch.active /\ ~srch.finished
    /\ srch' = [NoSearch EXCEPT !.active = TRUE, !.xai_sol = ctx.xai,
                                !.init_left = init_points(ctx.xai, ctx.d),
                                !.iter_left = ctx.epochs]
    /\ pc' = "search"
    /\ UNCHANGED <<ctx, explainer, files, call, loc, out, log, score_hist, calls>>

\* one probe: f is called on a vector and decodes it (lines 88, 102-108)
TrialBegin(cap) ==
    /\ pc = "search"
    /\ srch.init_left + srch.iter_left > 0
    /\ srch.random + srch.guided < cap
    /\ \E v \in Box(srch.xai_sol, ctx.d, ctx.grid) :
         /\ call' = [xai_sol |-> srch.xai_sol, parameters |-> decode(srch.xai_sol, v),
                     property |-> ""]
         /\ srch' = IF srch.init_left > 0
                    THEN [srch EXCEPT !.init_left = @ - 1, !.random = @ + 1,
                                      !.vec = v, !.pidx = 1]
                    ELSE [srch EXCEPT !.iter_left = @ - 1, !.guided = @ + 1,
                                      !.vec = v, !.pidx = 1]
    /\ pc' = "trial"
    /\ UNCHANGED <<ctx, explainer, files, loc, out, log, score_hist, calls>>

\* f: `property_score = evaluate(xai_sol, parameters, property, context)`
TrialEvaluate ==
    /\ pc = "trial"
    /\ srch.pidx <= Len(ctx.properties_list)
    /\ evaluate(srch.xai_sol, call.parameters, ctx.properties_list[srch.pidx])
    /\ UNCHANGED calls

\* f: linear_scalarization, then score_hist["aggregated_score"][-1]
TrialScalarize ==
    /\ pc = "trial"
    /\ srch.pidx > Len(ctx.properties_list)
    /\ score_hist' = linear_scalarization(score_hist, ctx.properties_list,
                                          ctx.scaling, ctx.weights)
    /\ IF score_hist'.err # ""
       THEN /\ out' = Error(score_hist'.err)
            /\ pc' = "raised"
       ELSE /\ out' = Score(score_hist'.aggregated_score[Len(score_hist.aggregated_score) + 1])
            /\ pc' = "search"
    /\ UNCHANGED <<ctx, explainer, files, call, loc, log, srch, calls>>

\* maximize is over: optimizer.res is returned
GpReturn ==
    /\ pc = "search"
    /\ srch.init_left + srch.iter_left = 0
    /\ srch' = [srch EXCEPT !.active = FALSE, !.finished = TRUE]
    /\ pc' = "idle"
    /\ UNCHANGED <<ctx, explainer, files, call, loc, out, log, score_hist, calls>>

(***************************************************************************)
(* The pure functions, applied to inputs of bounded sets.                  *)
(***************************************************************************)
AllKinds == Kinds \cup {"Anchors"}
Strategies == {"default", "random"}

ApplyGetParameters ==
    /\ pc = "idle"
    /\ \E xai_sol \in AllKinds, hpo \in Strategies :
         \E o \in get_parameters(xai_sol, hpo, ctx.properties_list, ctx.d) :
            /\ call' = [xai_sol |-> xai_sol, parameters |-> o.parameters,
                        property |-> hpo]
            /\ out' = IF o.err = "" THEN NoOut ELSE Error(o.err)
    /\ srch' = NoSearch
    /\ pc' = "applied"
    /\ UNCHANGED <<ctx, explainer, files, loc, log, score_hist, calls>>

ApplyDecode ==
    /\ pc = "idle"
    /\ \E xai_sol \in Kinds :
         \E v \in Box(xai_sol, ctx.d, ctx.grid) :
            /\ call' = [xai_sol |-> xai_sol, parameters |-> decode(xai_sol, v),
                        property |-> "decode"]
            /\ srch' = [NoSearch EXCEPT !.xai_sol = xai_sol, !.vec = v]
    /\ out' = NoOut
    /\ pc' = "applied"
    /\ UNCHANGED <<ctx, explainer, files, loc, log, score_hist, calls>>

\* the points lipschitz_ratio is applied to
RatioPoints(d) == {Row(k, d) : k \in 1..2} \cup {VAdd(Row(1, d), OffA(d)),
                                                 VAdd(Row(1, d), OffB(d))}

Applied(x, y, fx, fy, minus) ==
    /\ loc' = [NoLoc EXCEPT !.measure = "lipschitz_ratio", !.arts = <<x, y, fx, fy>>]
    /\ out' = Score(lipschitz_ratio(x, y, fx, fy, minus))

ApplyRatio ==
    /\ pc = "idle"
    /\ \E x, y \in RatioPoints(ctx.d), nx, ny \in ctx.noise, minus \in BOOLEAN,
          ps \in {o.parameters : o \in get_parameters("LIME", "default", <<>>, ctx.d)} :
         Applied(x, y, get_local_exp("LIME", x, ps, ctx.backend, "LimeTabularExplainer", nx),
                 get_local_exp("LIME", y, ps, ctx.backend, "LimeTabularExplainer", ny), minus)
    /\ pc' = "applied"
    /\ UNCHANGED <<ctx, explainer, files, call, log, score_hist, srch, calls>>

(***************************************************************************)
(* Contexts.                                                               *)
(***************************************************************************)
Base(d) ==
    [driver |-> "direct", X |-> SmallX(d), d |-> d, question |-> "Why",
     properties_list |-> <<>>, scaling |-> "MinMax", weights |-> <<>>,
     backend |-> "saliency", noise |-> {Zero}, offsets |-> {OffA(d)},
     perts |-> {PertLow(d)}, kinds |-> {"LIME"}, hpos |-> {"default"},
     props |-> Properties, xai |-> "LIME", epochs |-> 0, grid |-> "coarse", h0 |-> 0,
     late |-> {}]

Measures == {"robustness", "fidelity"}

DirectContexts ==
    LET b == Base(MaxDim)
        r == [b EXCEPT !.props = {"robustness"}]
    IN  { [r EXCEPT !.kinds = Kinds],
          [r EXCEPT !.offsets = {OffA(MaxDim), OffB(MaxDim)}],
          [b EXCEPT !.props = {"fidelity"}, !.kinds = Kinds,
                    !.perts = {PertLow(MaxDim), PertMix(MaxDim)}],
          [b EXCEPT !.X = OneRow(MaxDim), !.noise = {Zero, Q(1, 8)}, !.props = Measures],
          [b EXCEPT !.hpos = Strategies, !.properties_list = <<"conciseness">>,
                    !.props = {"robustness", "conciseness"}],
          [b EXCEPT !.question = "What"],
          [r EXCEPT !.X = SameX(MaxDim), !.hpos = Strategies,
                    !.offsets = {OffB(MaxDim)}],
          [b EXCEPT !.X = SameX(MaxDim), !.props = {"fidelity"},
                    !.perts = {PertMix(MaxDim)}],
          [b EXCEPT !.X = SameX(MaxDim), !.props = Measures, !.backend = "gradient"],
          [b EXCEPT !.X = OutlierX(MaxDim), !.props = Measures,
                    !.perts = {PertMix(MaxDim)}],
          [b EXCEPT !.X = ShortX(MaxDim), !.props = Measures] }

Weights(n) == [i \in 1..n |-> IF i = 1 THEN One ELSE Q(1, 2)]

Searched(k, pl, sc, h) ==
    [Base(MaxDim) EXCEPT !.driver = "search", !.xai = k, !.properties_list = pl,
                         !.weights = Weights(Len(pl)), !.scaling = sc, !.h0 = h]

\* the last context: conciseness is requested from now on only, its history
\* is one score behind
SearchContexts ==
    {Searched(k, pl, "MinMax", 0) :
        k \in Kinds, pl \in {<<"conciseness">>, <<"robustness", "conciseness">>}}
    \cup {Searched("LIME", pl, "Std", 1) :
            pl \in {<<"robustness", "conciseness">>, <<"fidelity", "robustness">>}}
    \cup {Searched("SHAP", <<"fidelity", "conciseness">>, "MinMax", 1)}
    \cup {[Searched("LIME", <<"robustness", "conciseness">>, "MinMax", 1)
             EXCEPT !.late = {"conciseness"}]}

\* the score history the caller hands over: h0 scores of each requested
\* property (none of a late one) and as many aggregated scores
FirstHist(c) ==
    [NoHist EXCEPT
       !.hist = [p \in Properties |->
                   IF p \in Range(c.properties_list) \ c.late
                   THEN [k \in 1..c.h0 |-> One] ELSE <<>>],
       !.aggregated_score = [k \in 1..c.h0 |-> Zero]]

InitIn(contexts) ==
    /\ ctx \in contexts
    /\ explainer = ""
    /\ files = [p \in Paths |-> NoFile]
    /\ pc = "idle"
    /\ call = NoCall
    /\ loc = NoLoc
    /\ out = NoOut
    /\ log = <<>>
    /\ score_hist = FirstHist(ctx)
    /\ srch = NoSearch
    /\ calls = 0

MaxTrials == 3

Init == InitIn(DirectContexts \cup SearchContexts)

Measure ==
    \/ RobReplayStep
    \/ RobComputeStep
    \/ RobEnd
    \/ InfReplayStep
    \/ InfComputeStep
    \/ InfEnd

\* direct callers, and searches of MaxTrials trials at most
Next ==
    \/ DirectCall
    \/ Measure
    \/ GpOptimization
    \/ TrialBegin(MaxTrials)
    \/ TrialEvaluate
    \/ TrialScalarize

Spec == Init /\ [][Next]_vars

(***************************************************************************)
(* SpecParams: get_parameters and f's decoding, on every dimensionality of *)
(* 1..MaxDim and every vector of the fine grid of the box.                 *)
(***************************************************************************)
ParamContexts ==
    {[Base(d) EXCEPT !.properties_list = pl, !.grid = "fine"] :
        d \in 1..MaxDim, pl \in {<<>>, <<"conciseness">>}}

InitParams == InitIn(ParamContexts)

NextParams ==
    \/ ApplyGetParameters
    \/ ApplyDecode

SpecParams == InitParams /\ [][NextParams]_vars

(***************************************************************************)
(* SpecDesign: whole runs of gp_optimization, one feature, the requested   *)
(* property at most conciseness.                                           *)
(***************************************************************************)
MaxEpochs == 2

DesignContexts ==
    {[Base(1) EXCEPT !.driver = "search", !.xai = k, !.epochs = e,
                     !.properties_list = pl, !.weights = Weights(Len(pl))] :
        k \in Kinds, e \in 0..MaxEpochs, pl \in {<<>>, <<"conciseness">>}}

\* more trials than any run of DesignContexts has
NoCap == Pow(5, 5) + MaxEpochs + 1

InitDesign == InitIn(DesignContexts)

NextDesign ==
    \/ GpOptimization
    \/ TrialBegin(NoCap)
    \/ TrialEvaluate
    \/ TrialScalarize
    \/ GpReturn

SpecDesign == InitDesign /\ [][NextDesign]_vars

(***************************************************************************)
(* SpecRatio: lipschitz_ratio on pairs of points, equal ones included.     *)
(***************************************************************************)
RatioContexts ==
    {[Base(d) EXCEPT !.backend = b, !.noise = {Zero, Q(1, 8)}] :
        d \in 1..MaxDim, b \in {"saliency", "gradient"}}

InitRatio == InitIn(RatioContexts)

NextRatio == ApplyRatio

SpecRatio == InitRatio /\ [][NextRatio]_vars

(***************************************************************************)
(* SpecReplay: searches whose trials evaluate both measures, on a dataset  *)
(* of two rows and on datasets of equal rows where the compute loops stop  *)
(* early, from an empty results directory.                                 *)
(***************************************************************************)
ReplayContexts ==
    {[Searched(k, <<"robustness", "fidelity">>, "MinMax", 0)
        EXCEPT !.X = X, !.offsets = {OffB(MaxDim)}, !.perts = {PertMix(MaxDim)}] :
        k \in Kinds, X \in {SmallX(MaxDim), SameX(MaxDim)}}

InitReplay == InitIn(ReplayContexts)

NextReplay ==
    \/ GpOptimization
    \/ TrialBegin(MaxTrials)
    \/ TrialEvaluate
    \/ TrialScalarize
    \/ Measure

SpecReplay == InitReplay /\ [][NextReplay]_vars

(***************************************************************************)
(* Properties.                                                             *)
(***************************************************************************)
\* the last evaluate was of a measure, and that measure has returned
Returned ==
    /\ pc \in {"idle", "trial"}
    /\ out.status = "score"
    /\ call.property = loc.measure

\* a compute-path run over 12 rows or more whose scores so far are all one
\* finite constant
ConstantRun ==
    /\ loc.path = "compute"
    /\ Len(ctx.X) >= 12
    /\ Len(loc.list) >= 1
    /\ AllEqual(loc.list)
    /\ IsFin(loc.list[1])

\* a is c up to the rounding of a few operations: 16 units of the last place
Near(a, c) == FLeq(FAbs(FSub(a, c)), FMul(FAbs(c), Q(16, Top)))

\* C1 (as amended): on the compute path of both measures, when every score
\* is one finite constant c and the dataset has 12 rows or more, the loop is
\* left after index 11 at the latest (12 rows evaluated at most) and the
\* returned score is c up to floating point rounding.
C1_EarlyStopNearMean ==
    /\ (pc \in {"rob_compute", "inf_compute"} /\ ConstantRun) => Len(loc.list) < 12
    /\ (Returned /\ ConstantRun) =>
          /\ Len(loc.list) <= 12
          /\ Near(out.score, loc.list[1])

\* a constant run of 12 rows has returned after the break of the loop
C1_Witness ==
    /\ Returned
    /\ ConstantRun
    /\ Len(loc.list) = 12
    /\ loc.stable_i > MaxStable
    /\ Len(ctx.X) > 12

\* C1 as stated: the returned score is c exactly
C1_ExactMean ==
    (Returned /\ ConstantRun) =>
        /\ Len(loc.list) <= 12
        /\ out.score = loc.list[1]

LoopPcs == {"rob_replay", "rob_compute", "inf_replay", "inf_compute"}

\* the artifact of the key of the measure that `call` names
KeyPath(c) ==
    PathOf(IF c.property = "robustness" THEN "x_opts_" ELSE "perturb_infs_", c.xai_sol)

\* C2: an artifact that exists is never changed; a measure that starts when
\* the artifact of its key exists takes the replay path; only a run that
\* found no artifact writes one.
C2_CacheLifecycle ==
    [][ /\ \A p \in Paths : files[p].present => files'[p] = files[p]
        /\ files' # files => (loc.path = "compute" /\ ~loc.found)
        /\ (pc \notin LoopPcs /\ pc' \in LoopPcs /\ files[KeyPath(call')].present)
              => pc' \in {"rob_replay", "inf_replay"} ]_vars

\* a replay run has returned, its artifact still there
C2_Witness ==
    \E i \in 1..Len(log) :
        /\ log[i].path = "replay"
        /\ files[PathOf(IF log[i].measure = "robustness" THEN "x_opts_"
                        ELSE "perturb_infs_", log[i].xai_sol)].present

\* a compute-path run i of robustness and a later replay j of the same key
RoundTrip(i, j) ==
    /\ i < j
    /\ log[i].measure = "robustness" /\ log[j].measure = "robustness"
    /\ log[i].xai_sol = log[j].xai_sol
    /\ log[i].path = "compute" /\ log[j].path = "replay"

\* C3 (as amended): a replay of robustness returns the score of the
\* compute-path run of the same key when both runs have the same
\* hyperparameter configuration and the explainer is deterministic.
C3_RoundTripSameConfiguration ==
    \A i, j \in 1..Len(log) :
        (RoundTrip(i, j) /\ log[i].parameters = log[j].parameters
                         /\ ctx.noise = {Zero})
            => log[j].score = log[i].score

C3_Witness ==
    \E i, j \in 1..Len(log) :
        /\ RoundTrip(i, j)
        /\ log[i].parameters = log[j].parameters
        /\ ctx.noise = {Zero}
        /\ log[j].n > 1

\* C3 as stated: any replay of the same key returns the computed score
C3_RoundTrip ==
    \A i, j \in 1..Len(log) : RoundTrip(i, j) => log[j].score = log[i].score

\* the trials of the current search that f was called for
Trials == srch.random + srch.guided

Requested == Range(ctx.properties_list)

\* C5: in a search that starts from a history of equal lengths, between two
\* trials the sequence of each requested property and aggregated_score have
\* grown by one element per trial, so they all have one length.
C5_HistoryGrowsByOne ==
    (ctx.driver = "search" /\ ctx.late = {} /\ pc = "search") =>
        /\ \A p \in Requested : Len(score_hist.hist[p]) = ctx.h0 + Trials
        /\ Len(score_hist.aggregated_score) = ctx.h0 + Trials

\* two trials and more are over, of two requested properties
C5_Witness ==
    /\ ctx.driver = "search" /\ ctx.late = {} /\ pc = "search"
    /\ Trials >= 2
    /\ ctx.h0 = 1
    /\ Cardinality(Requested) = 2

\* C6 as stated: with a question other than "Why", evaluate of one of the
\* three properties ends without a score and without an error.
C6_NotApplicable ==
    (call.property \in Properties /\ ctx.question # "Why") => out.status # "raised"

\* entry k of the sum, over the first i requested properties that have two
\* scores or more, of scaled[k] * weight / number of requested properties
RECURSIVE SumOfScaled(_, _)
SumOfScaled(k, i) ==
    IF i = 0 THEN Zero
    ELSE IF Len(score_hist.hist[ctx.properties_list[i]]) >= 2
    THEN FAdd(SumOfScaled(k, i - 1),
              FDiv(FMul(score_hist.scaled[ctx.properties_list[i]].vals[k],
                        ctx.weights[i]),
                   FromInt(Len(ctx.properties_list))))
    ELSE SumOfScaled(k, i - 1)

\* linear_scalarization has returned to f
Scalarized == ctx.driver = "search" /\ pc = "search" /\ Trials >= 1

\* C8: after linear_scalarization a requested property with exactly one
\* score has scaled_<property> = 0, and each entry of aggregated_score is the
\* sum over the requested properties with two scores or more of
\* scaled_<property>[k] * weight / (number of requested properties).
C8_ShortHistories ==
    Scalarized =>
        /\ \A p \in Requested :
              Len(score_hist.hist[p]) = 1 => score_hist.scaled[p] = IntZero
        /\ \A k \in 1..Len(score_hist.aggregated_score) :
              score_hist.aggregated_score[k] = SumOfScaled(k, Len(ctx.properties_list))

\* one requested property has one score, another has two, and the aggregate
\* has an entry that is not zero
C8_Witness ==
    /\ Scalarized
    /\ \E p, q \in Requested :
          /\ Len(score_hist.hist[p]) = 1
          /\ Len(score_hist.hist[q]) = 2
    /\ \E k \in 1..Len(score_hist.aggregated_score) :
          score_hist.aggregated_score[k] # Zero

\* a pure function was applied and gave a configuration
Produced == pc = "applied" /\ out.status # "raised" /\ call.property # ""

\* C7: the nfeatures of a configuration that get_parameters (default or
\* random) or f's decoding of a vector of the box produces is in 1..d.
C7_NfeaturesInRange == Produced => call.parameters.nfeatures \in 1..ctx.d

\* the random strategy with conciseness requested drew fewer features than d
C7_Witness ==
    /\ Produced
    /\ call.property = "random"
    /\ "conciseness" \in Requested
    /\ call.parameters.nfeatures < ctx.d

\* r is an integer nearest to v
Nearest(r, v) == FLeq(FAbs(FSub(v, Q(r, 1))), Q(1, 2))

\* r is v cut of its fraction (v >= 0)
Truncated(r, v) == FLeq(Q(r, 1), v) /\ ~FLeq(Q(r + 1, 1), v)

Decoded == pc = "applied" /\ call.property = "decode"

\* the categorical coordinates and the argument of num_features
CategoricalsRounded(v, ps) ==
    /\ \E r \in 0..1 : Nearest(r, v.summarize) /\ ps.summarize = hp_SHAP_summarize[r + 1]
    /\ \E r \in 0..3 :
          /\ Nearest(r, v.l1_reg)
          /\ IF hp_SHAP_l1_reg[r + 1].name = "num_features(int)"
             THEN ps.l1_reg.name = "num_features" /\ Nearest(ps.l1_reg.arg, v.num_features)
             ELSE ps.l1_reg = hp_SHAP_l1_reg[r + 1]

\* C10 (as amended): f decodes nfeatures and the argument of num_features to
\* a nearest integer and summarize and l1_reg to the element at a nearest
\* index; num_samples and nsamples are cut of their fraction, not rounded.
C10_DecodingRoundsOrTruncates ==
    Decoded =>
        /\ Nearest(call.parameters.nfeatures, srch.vec.nfeatures)
        /\ IF srch.xai_sol = "LIME"
           THEN Truncated(call.parameters.num_samples, srch.vec.num_samples)
           ELSE /\ Truncated(call.parameters.nsamples, srch.vec.nsamples)
                /\ CategoricalsRounded(srch.vec, call.parameters)

\* a SHAP vector with a fraction in nsamples, decoded to num_features(k)
C10_Witness ==
    /\ Decoded
    /\ srch.xai_sol = "SHAP"
    /\ call.parameters.l1_reg.name = "num_features"
    /\ call.parameters.nsamples = 10
    /\ srch.vec.nsamples = Q(43, 4)

\* C10 as stated: every integer coordinate is decoded to a nearest integer
C10_DecodingRounds ==
    Decoded =>
        /\ Nearest(call.parameters.nfeatures, srch.vec.nfeatures)
        /\ IF srch.xai_sol = "LIME"
           THEN Nearest(call.parameters.num_samples, srch.vec.num_samples)
           ELSE /\ Nearest(call.parameters.nsamples, srch.vec.nsamples)
                /\ CategoricalsRounded(srch.vec, call.parameters)

\* C9 (as amended): gp_optimization runs 25 random initial points for LIME
\* (5 to the 2 dimensions of its box) and 25 for SHAP too (its box has 5
\* dimensions), then exactly `epochs` guided iterations.
C9_TwentyFiveInitialPoints ==
    /\ NumDims("LIME", ctx.d) = 2 /\ NumDims("SHAP", ctx.d) = 5
    /\ srch.random <= 25 /\ srch.guided <= ctx.epochs
    /\ srch.guided > 0 => srch.random = 25
    /\ srch.finished => (srch.random = 25 /\ srch.guided = ctx.epochs)

\* a SHAP search with guided iterations is over
C9_Witness ==
    /\ srch.finished
    /\ srch.xai_sol = "SHAP"
    /\ srch.guided = MaxEpochs
    /\ srch.random = 25

\* C9 as stated: 5 to the number of dimensions of the box of the kind
C9_PowerOfDimensions ==
    srch.finished =>
        /\ srch.random = Pow(5, NumDims(srch.xai_sol, ctx.d))
        /\ srch.guided = ctx.epochs

\* C4 as stated: lipschitz_ratio of a point with itself signals an error
C4_DomainError ==
    (pc = "applied" /\ loc.measure = "lipschitz_ratio" /\ loc.arts[1] = loc.arts[2])
        => out.status = "raised"

\* the artifact of the key of run r of the log
ArtifactOf(r) ==
    files[PathOf(IF r.measure = "robustness" THEN "x_opts_" ELSE "perturb_infs_",
                 r.xai_sol)]

\* run j of the log is the first run of its measure in the search
FirstOfMeasure(j) == \A i \in 1..(j - 1) : log[i].measure # log[j].measure

ComputePcs == {"rob_compute", "rob_end", "inf_compute", "inf_end"}

\* C11: in a search that starts with no artifact of its explainer kind, the
\* first run of a measure takes the compute path and every later run of it
\* takes the replay path and evaluates as many points as the artifact
\* holds; a compute loop is only ever running for a measure that has not
\* returned yet in the search, and a replay loop runs over the artifact.
C11_LaterTrialsReplay ==
    ctx.driver = "search" =>
        /\ \A j \in 1..Len(log) :
             IF FirstOfMeasure(j)
             THEN log[j].path = "compute"
             ELSE /\ log[j].path = "replay"
                  /\ ArtifactOf(log[j]).present
                  /\ log[j].n = Len(ArtifactOf(log[j]).data)
        /\ pc \in ComputePcs => \A i \in 1..Len(log) : log[i].measure # loc.measure
        /\ pc \in {"rob_replay", "inf_replay"} =>
             /\ \E i \in 1..Len(log) : log[i].measure = loc.measure
             /\ loc.arts = files[KeyPath(call)].data

\* a later trial of another configuration has replayed a measure over an
\* artifact of an early stop, which holds fewer points than the dataset
LaterReplay(m) ==
    \E i, j \in 1..Len(log) :
        /\ i < j
        /\ log[i].measure = m /\ log[j].measure = m
        /\ log[i].path = "compute" /\ log[j].path = "replay"
        /\ log[i].parameters # log[j].parameters
        /\ log[j].n = log[i].n
        /\ log[j].n < Len(ctx.X)

C11_Witness ==
    /\ ctx.driver = "search"
    /\ Trials = MaxTrials
    /\ LaterReplay("robustness")
    /\ LaterReplay("fidelity")
====
